---- MODULE Spec2Model ----
(***************************************************************************)
(* OrbiaColumnFilter (jquery.dataTables.orbiaColumnFilter.js): the filter  *)
(* row of one DataTable, its input handlers, the shared redraw timer, the  *)
(* locally registered number-range predicate and the clear-filters button. *)
(*                                                                         *)
(* Texts (JavaScript strings) are sequences of one-character strings, so   *)
(* that concatenation, escaping and parsing are computed character by      *)
(* character.                                                              *)
(***************************************************************************)
EXTENDS Integers, Sequences, FiniteSets, TLC

VARIABLES
    aoColumns,      \* settings.aoColumns: per column its filter type and flags
    serverSide,     \* settings.oFeatures.bServerSide
    hasGlobalValue, \* whether the page defines a global variable named "value"
    pc,             \* "new", "ready" (constructor returned), "failed" (it threw), "torn"
    attached,       \* the filter row tr is in the table's thead/tfoot
    warnings,       \* number of console.warn calls made by the constructor
    inputs,         \* the :input elements of the row in DOM order
    search,         \* host per-column search slot: [sSearch, bRegex]
    extSearch,      \* $.fn.dataTable.ext.search: the registered row predicates
    timers,         \* pending host timers: [id, remaining]
    trTimeout,      \* tr.data('timeout'): 0 when never set, else a timer id
    accepted,       \* per table: the rows that passed ext.search in its last draw
    ev,             \* the last event delivered to an input and what its handler did
    lastEdit        \* the last value-changing edit of a debounced input

vars == <<aoColumns, serverSide, hasGlobalValue, pc, attached, warnings, inputs,
          search, extSearch, timers, trTimeout, accepted, ev, lastEdit>>

----------------------------------------------------------------------------
(* Program constant and model bounds *)

Delay == 500

NumOtherTables == 1

----------------------------------------------------------------------------
(* Texts *)

LikePrefix == <<"l", "i", "k", "e", ":">>

EqualsPrefix == <<"e", "q", "u", "a", "l", "s", ":">>

RangePrefix == <<"r", "a", "n", "g", "e", ":">>

\* what the user types into a text filter
TextVals == {<<>>, <<"a">>, <<"a", "b">>}

\* item.values: the option keys of a select filter
OptionKeys == {<<"m">>, <<"c", "+">>}

\* the values a select can hold: the empty first option, or a key
SelectVals == {<<>>} \cup OptionKeys

\* what the user types into a number-range bound when the table is remote
RemoteRangeVals == {<<>>, <<"1">>, <<"1", "~">>, <<"~", "1">>}

\* what the user types into a number-range bound when the table is local
LocalRangeVals == {<<>>, <<"1">>, <<"1", "0">>, <<"1", ",", "5">>, <<"1", "x">>}

\* the cell texts of the host tables' rows
CellTexts == {<<"5">>, <<"0">>, <<"2">>, <<"1", "0", ".", "0">>, <<"x">>}

Tables == 0 .. NumOtherTables

OwnTable == 0

----------------------------------------------------------------------------
(* Expression encoding *)

\* the characters DataTables' util.escapeRegex prefixes with a backslash
RegexMeta ==
    {"/", ".", "*", "+", "?", "|", "(", ")", "[", "]", "{", "}", "\\", "$", "^", "-"}

RECURSIVE escapeRegex(_)
escapeRegex(s) ==
    IF s = <<>> THEN <<>>
    ELSE (IF Head(s) \in RegexMeta THEN <<"\\", Head(s)>> ELSE <<Head(s)>>)
         \o escapeRegex(Tail(s))

\* text handler: if (serverSide && val) val = 'like:' + val
TextEncodeAlwaysPrefix(remote, val) == LikePrefix \o val

TextEncode(remote, val) ==
    IF remote /\ val # <<>> THEN LikePrefix \o val ELSE val

\* select handler: val is already escaped when it is encoded
SelectEncodeUnanchored(remote, val) ==
    IF remote /\ val # <<>> THEN EqualsPrefix \o val ELSE val

SelectEncode(remote, val) ==
    IF remote /\ val # <<>> THEN EqualsPrefix \o val
    ELSE IF val # <<>> THEN <<"^">> \o val \o <<"$">>
    ELSE val

\* number-range remote handlers: the combined expression of both bounds
RangeEncode(valFrom, valTo) ==
    IF valFrom # <<>> \/ valTo # <<>>
    THEN RangePrefix \o valFrom \o <<"~">> \o valTo
    ELSE <<>>

----------------------------------------------------------------------------
(* Numbers: parseFloat and String.replace as the local predicate uses them. *)
(* A number is [nan |-> TRUE] or a decimal scaled by Scale.                 *)

Digits == {"0", "1", "2", "3", "4", "5", "6", "7", "8", "9"}

DigitVal(c) ==
    CASE c = "0" -> 0 [] c = "1" -> 1 [] c = "2" -> 2 [] c = "3" -> 3 [] c = "4" -> 4
      [] c = "5" -> 5 [] c = "6" -> 6 [] c = "7" -> 7 [] c = "8" -> 8 [] c = "9" -> 9

RECURSIVE Pow10(_)
Pow10(n) == IF n = 0 THEN 1 ELSE 10 * Pow10(n - 1)

\* no text of the model has more characters than this, so no fraction more digits
FracDigits ==
    LET lens == {Len(t) : t \in LocalRangeVals \cup CellTexts}
    IN  CHOOSE n \in lens : \A m \in lens : m <= n

Scale == Pow10(FracDigits)

NaN == [nan |-> TRUE, v |-> 0]

Number(n) == [nan |-> FALSE, v |-> n]

isNaN(x) == x.nan

\* a <= b in JavaScript: false when either side is NaN
LessEq(a, b) == ~a.nan /\ ~b.nan /\ a.v <= b.v

RECURSIVE LeadingDigits(_)
LeadingDigits(s) ==
    IF s # <<>> /\ Head(s) \in Digits THEN <<Head(s)>> \o LeadingDigits(Tail(s)) ELSE <<>>

RECURSIVE DigitsValue(_)
DigitsValue(ds) ==
    IF ds = <<>> THEN 0
    ELSE 10 * DigitsValue(SubSeq(ds, 1, Len(ds) - 1)) + DigitVal(ds[Len(ds)])

\* parseFloat: the value of the longest leading decimal literal, NaN when none
parseFloat(s) ==
    LET signed == s # <<>> /\ Head(s) \in {"-", "+"}
        body   == IF signed THEN Tail(s) ELSE s
        ip     == LeadingDigits(body)
        rest   == SubSeq(body, Len(ip) + 1, Len(body))
        fp     == IF rest # <<>> /\ Head(rest) = "." THEN LeadingDigits(Tail(rest)) ELSE <<>>
        mag    == DigitsValue(ip) * Scale + DigitsValue(fp) * Pow10(FracDigits - Len(fp))
    IN  IF ip = <<>> /\ fp = <<>> THEN NaN
        ELSE Number(IF signed /\ Head(s) = "-" THEN 0 - mag ELSE mag)

\* s.replace(',', '.'): a string pattern replaces the first occurrence only
RECURSIVE replaceComma(_)
replaceComma(s) ==
    IF s = <<>> THEN <<>>
    ELSE IF Head(s) = "," THEN <<".">> \o Tail(s)
    ELSE <<Head(s)>> \o replaceComma(Tail(s))

\* parseFloat(x) || 0: NaN and 0 are falsy
OrZero(x) == IF x.nan \/ x.v = 0 THEN Number(0) ELSE x

\* the return expression of the local number-range predicate
RangeTestStrict(min, max, value) ==
    \/ isNaN(min) /\ isNaN(max)
    \/ isNaN(min) /\ ~isNaN(max) /\ value.v < max.v
    \/ LessEq(min, value) /\ isNaN(max)
    \/ LessEq(min, value) /\ LessEq(value, max)

RangeTest(min, max, value) ==
    \/ isNaN(min) /\ isNaN(max)
    \/ isNaN(min) /\ LessEq(value, max)
    \/ LessEq(min, value) /\ isNaN(max)
    \/ LessEq(min, value) /\ LessEq(value, max)

\* the predicate pushed to ext.search, closed over (nTable, from, to); cell is
\* data[ci] of the row the host is filtering for the table settingsTable
RangePredicate(nTable, fromVal, toVal, settingsTable, cell) ==
    IF settingsTable # nTable THEN FALSE
    ELSE RangeTest(parseFloat(replaceComma(fromVal)),
                   parseFloat(replaceComma(toVal)),
                   OrZero(parseFloat(cell)))


----------------------------------------------------------------------------
(* Table configurations *)

Col(type, searchable, visible) ==
    [type |-> type, bSearchable |-> searchable, bVisible |-> visible]

\* the column definitions the constructor is run on; "none" is a column
\* without orbiaColumnFilter, "date" a filter type the plugin does not know
Layouts ==
    { <<Col("text", TRUE, TRUE), Col("select", TRUE, TRUE)>>,
      <<Col("number-range", TRUE, TRUE), Col("text", TRUE, TRUE)>>,
      <<Col("date", TRUE, TRUE), Col("text", TRUE, TRUE)>>,
      <<Col("number-range", TRUE, TRUE), Col("date", TRUE, TRUE)>>,
      <<Col("text", TRUE, FALSE), Col("number-range", TRUE, TRUE)>>,
      <<Col("select", FALSE, TRUE), Col("text", TRUE, TRUE)>>,
      <<Col("none", TRUE, TRUE), Col("text", FALSE, TRUE)>> }

KnownTypes == {"text", "select", "number-range"}

\* the rows of every host table; data[ci] of a row is its cell text
Rows == CellTexts

----------------------------------------------------------------------------
(* The constructor $.fn.dataTable.OrbiaColumnFilter *)

\* items[idx]: the column's filter type, or "null"
itemsIgnoreSearchable(cols, idx) ==
    IF cols[idx].type # "none" THEN cols[idx].type ELSE "null"

items(cols, idx) ==
    IF cols[idx].type # "none" /\ cols[idx].bSearchable THEN cols[idx].type ELSE "null"

enabled(cols) == \E idx \in DOMAIN cols : items(cols, idx) # "null"

Input(col, role, data) == [col |-> col, role |-> role, val |-> <<>>, data |-> data]

\* one pass of api.columns().flatten().each over column ci; b is what the
\* constructor has built so far
buildColumn(cols, remote, globalValue, ci, b) ==
    LET item == items(cols, ci)
    IN  IF ~cols[ci].bVisible \/ item = "null" THEN b
        ELSE CASE item = "text" ->
                    [b EXCEPT !.inputs = @ \o <<Input(ci, "text", {})>>]
               [] item = "select" ->
                    [b EXCEPT !.inputs = @ \o <<Input(ci, "select", {})>>]
               [] item = "number-range" ->
                    [b EXCEPT !.inputs = @ \o <<Input(ci, "from", {<<>>}),
                                                Input(ci, "to", {<<>>})>>,
                              !.extSearch = IF remote THEN @
                                            ELSE @ \o <<[ci |-> ci, nTable |-> OwnTable]>>]
               [] OTHER ->
                    \* console.warn('...' + value + '.'): value is declared nowhere
                    IF globalValue THEN [b EXCEPT !.warnings = @ + 1]
                    ELSE [b EXCEPT !.threw = TRUE]

RECURSIVE buildRow(_, _, _, _, _)
buildRow(cols, remote, globalValue, ci, b) ==
    IF ci > Len(cols) \/ b.threw THEN b
    ELSE buildRow(cols, remote, globalValue, ci + 1,
                  buildColumn(cols, remote, globalValue, ci, b))

NothingBuilt == [inputs |-> <<>>, extSearch |-> <<>>, warnings |-> 0, threw |-> FALSE]

----------------------------------------------------------------------------
(* The state the handlers act on, as a record *)

NoEffects == [search |-> 0, start |-> 0, cancel |-> 0, draw |-> 0]

NoEvent == [by |-> "none", input |-> 0, dup |-> FALSE, changed |-> FALSE, fx |-> NoEffects]

NoEdit == [input |-> 0, since |-> 0, draws |-> 0, clean |-> FALSE]

State ==
    [inputs |-> inputs, search |-> search, timers |-> timers, trTimeout |-> trTimeout,
     accepted |-> accepted, ev |-> ev, lastEdit |-> lastEdit,
     fx |-> NoEffects]

\* from.val() / to.val() of the number-range column ci
BoundVal(ins, ci, role) ==
    LET i == CHOOSE j \in DOMAIN ins : ins[j].col = ci /\ ins[j].role = role
    IN  ins[i].val

\* the host's filtering pass for table t: the rows every ext.search predicate accepts
filterRows(ins, t) ==
    {r \in Rows : \A k \in DOMAIN extSearch :
        RangePredicate(extSearch[k].nTable,
                       BoundVal(ins, extSearch[k].ci, "from"),
                       BoundVal(ins, extSearch[k].ci, "to"), t, r)}

\* api.draw(): a client-side table filters its rows, a remote one asks the server
draw(s) ==
    [s EXCEPT !.accepted = IF serverSide THEN @
                           ELSE [@ EXCEPT ![OwnTable] = filterRows(s.inputs, OwnTable)],
              !.fx.draw = @ + 1]

\* api.column(ci).search(val [, regex])
columnSearch(s, ci, val, regex) ==
    [s EXCEPT !.search[ci] = [sSearch |-> val, bRegex |-> regex],
              !.fx.search = @ + 1]

\* setTimeout returns an id that no pending timer carries
freshId(pending) ==
    LET used == {t.id : t \in pending}
    IN  CHOOSE n \in 1 .. (Cardinality(used) + 1) :
            n \notin used /\ \A m \in 1 .. (n - 1) : m \in used

\* if (tr.data('timeout')) clearTimeout(...); tr.data('timeout', setTimeout(draw, 500))
restartTimerNoClear(s) ==
    [s EXCEPT !.timers = @ \cup {[id |-> freshId(s.timers), remaining |-> Delay]},
              !.trTimeout = freshId(s.timers),
              !.fx.start = @ + 1]

restartTimer(s) ==
    LET kept == IF s.trTimeout # 0 THEN {t \in s.timers : t.id # s.trTimeout}
                ELSE s.timers
    IN  [s EXCEPT !.timers = kept \cup {[id |-> freshId(kept), remaining |-> Delay]},
                  !.trTimeout = freshId(kept),
                  !.fx.start = @ + 1,
                  !.fx.cancel = IF kept # s.timers THEN @ + 1 ELSE @]

setData(s, i, val) == [s EXCEPT !.inputs[i].data = {val}]

----------------------------------------------------------------------------
(* The handlers bound to the inputs; i is the input the event is delivered to *)

textHandler(s, i) ==
    LET val == s.inputs[i].val
    IN  IF s.inputs[i].data # {val}
        THEN restartTimer(columnSearch(setData(s, i, val), s.inputs[i].col,
                                       TextEncode(serverSide, val), FALSE))
        ELSE s

selectHandler(s, i) ==
    LET val == escapeRegex(s.inputs[i].val)
    IN  IF s.inputs[i].data # {val}
        THEN restartTimer(columnSearch(setData(s, i, val), s.inputs[i].col,
                                       SelectEncode(serverSide, val), TRUE))
        ELSE s

\* both remote number-range handlers: they differ in which bound is $(this)
rangeRemoteHandler(s, i) ==
    LET ci  == s.inputs[i].col
        val == RangeEncode(BoundVal(s.inputs, ci, "from"), BoundVal(s.inputs, ci, "to"))
    IN  IF s.inputs[i].data # {val}
        THEN restartTimer(columnSearch(setData(s, i, val), ci, val, FALSE))
        ELSE s

\* from.add(to).bind('input change', function() { api.draw(); })
rangeLocalHandler(s, i) == draw(s)

handler(s, i) ==
    CASE s.inputs[i].role = "text"   -> textHandler(s, i)
      [] s.inputs[i].role = "select" -> selectHandler(s, i)
      [] OTHER -> IF serverSide THEN rangeRemoteHandler(s, i) ELSE rangeLocalHandler(s, i)

\* the inputs whose handler goes through the memo and the row timer
debounced(ins, i) == ins[i].role \in {"text", "select"} \/ serverSide

\* the input takes the value v and its handler runs; ev and lastEdit record it
deliver(s, i, v) ==
    LET changed == s.inputs[i].val # v
        dup     == s.ev.input = i /\ ~changed
        s1      == [s EXCEPT !.inputs[i].val = v, !.fx = NoEffects]
        s2      == handler(s1, i)
    IN  [s2 EXCEPT !.ev = [by |-> "user", input |-> i, dup |-> dup, changed |-> changed,
                           fx |-> s2.fx],
                   !.lastEdit = IF changed /\ debounced(s.inputs, i)
                                THEN [input |-> i, since |-> 0, draws |-> 0, clean |-> TRUE]
                                ELSE [@ EXCEPT !.clean = FALSE]]

\* $("#..._orbia_column_filters :input").each(function() { $(this).val('').trigger('change') })
RECURSIVE clearFrom(_, _)
clearFrom(s, i) ==
    IF i > Len(s.inputs) THEN s ELSE clearFrom(deliver(s, i, <<>>), i + 1)

\* the selector matches the inputs only while the row is in the document
clearFiltersNoTrigger(s) ==
    IF attached
    THEN [s EXCEPT !.inputs = [i \in DOMAIN s.inputs |-> [s.inputs[i] EXCEPT !.val = <<>>]],
                   !.ev.by = "clear"]
    ELSE s

clearFilters(s) ==
    IF attached THEN [clearFrom(s, 1) EXCEPT !.ev.by = "clear"] ELSE s

\* what an input of this kind can be given by the user
InputVals(ins, i) ==
    CASE ins[i].role = "text"   -> TextVals
      [] ins[i].role = "select" -> SelectVals
      [] OTHER -> IF serverSide THEN RemoteRangeVals ELSE LocalRangeVals

----------------------------------------------------------------------------
(* Actions *)

Init ==
    /\ aoColumns \in Layouts
    /\ serverSide \in BOOLEAN
    /\ hasGlobalValue \in
            IF \E ci \in DOMAIN aoColumns : aoColumns[ci].type \notin KnownTypes \cup {"none"}
            THEN BOOLEAN ELSE {FALSE}
    /\ pc = "new"
    /\ attached = FALSE
    /\ warnings = 0
    /\ inputs = <<>>
    /\ search = [ci \in DOMAIN aoColumns |-> [sSearch |-> <<>>, bRegex |-> FALSE]]
    /\ extSearch = <<>>
    /\ timers = {}
    /\ trTimeout = 0
    /\ accepted = [t \in Tables |-> Rows]
    /\ ev = NoEvent
    /\ lastEdit = NoEdit

Commit(s) ==
    /\ inputs' = s.inputs
    /\ search' = s.search
    /\ timers' = s.timers
    /\ trTimeout' = s.trTimeout
    /\ accepted' = s.accepted
    /\ ev' = s.ev
    /\ lastEdit' = s.lastEdit

\* new $.fn.dataTable.OrbiaColumnFilter(api, options)
Construct ==
    /\ pc = "new"
    /\ LET b == IF enabled(aoColumns)
                THEN buildRow(aoColumns, serverSide, hasGlobalValue, 1, NothingBuilt)
                ELSE NothingBuilt
       IN  /\ inputs' = b.inputs
           /\ extSearch' = b.extSearch
           /\ warnings' = b.warnings
           /\ attached' = (enabled(aoColumns) /\ ~b.threw)
           /\ pc' = IF b.threw THEN "failed" ELSE "ready"
    /\ UNCHANGED <<aoColumns, serverSide, hasGlobalValue, search, timers, trTimeout,
                   accepted, ev, lastEdit>>

\* a native input/change event on input i, which holds v when the handler runs
InputEvent ==
    /\ pc = "ready" /\ attached
    /\ \E i \in DOMAIN inputs : \E v \in InputVals(inputs, i) : Commit(deliver(State, i, v))
    /\ UNCHANGED <<aoColumns, serverSide, hasGlobalValue, pc, attached, warnings, extSearch>>

\* a click on the clear-filters button
ClearClick ==
    /\ pc \in {"ready", "failed", "torn"}
    /\ Commit(clearFilters(State))
    /\ UNCHANGED <<aoColumns, serverSide, hasGlobalValue, pc, attached, warnings, extSearch>>

TimeSteps == {Delay \div 2, Delay}

\* time passes; a due timer's callback runs before time passes further
Advance ==
    /\ pc # "new"
    /\ \E d \in TimeSteps :
        /\ \A t \in timers : d <= t.remaining
        /\ timers # {} \/ (lastEdit.input # 0 /\ lastEdit.since < Delay)
        /\ timers' = {[t EXCEPT !.remaining = @ - d] : t \in timers}
        /\ lastEdit' = [lastEdit EXCEPT !.since = IF @ + d > Delay THEN Delay ELSE @ + d]
    /\ UNCHANGED <<aoColumns, serverSide, hasGlobalValue, pc, attached, warnings, inputs,
                   search, extSearch, trTimeout, accepted, ev>>

\* the callback of a row timer: function() { api.draw(); }
TimerFire ==
    /\ \E t \in timers :
        /\ t.remaining = 0
        /\ LET s == draw([State EXCEPT !.timers = @ \ {t}])
           IN  Commit([s EXCEPT !.lastEdit.draws = IF @ < 2 THEN @ + 1 ELSE @])
    /\ UNCHANGED <<aoColumns, serverSide, hasGlobalValue, pc, attached, warnings, extSearch>>

\* the host redraws another client-side table of the page: ext.search is global
OtherTableDraw ==
    /\ pc # "new"
    /\ \E t \in Tables \ {OwnTable} :
        accepted' = [accepted EXCEPT ![t] = filterRows(inputs, t)]
    /\ UNCHANGED <<aoColumns, serverSide, hasGlobalValue, pc, attached, warnings, inputs,
                   search, extSearch, timers, trTimeout, ev, lastEdit>>

\* the filter row is removed from the document; the plugin registers no code
\* that runs then
Teardown ==
    /\ pc = "ready" /\ attached
    /\ pc' = "torn"
    /\ attached' = FALSE
    /\ UNCHANGED <<aoColumns, serverSide, hasGlobalValue, warnings, inputs, search,
                   extSearch, timers, trTimeout, accepted, ev, lastEdit>>

Next ==
    \/ Construct
    \/ InputEvent
    \/ ClearClick
    \/ Advance
    \/ TimerFire
    \/ OtherTableDraw
    \/ Teardown

Spec == Init /\ [][Next]_vars


----------------------------------------------------------------------------
(* Properties *)

TextInputs == {i \in DOMAIN inputs : inputs[i].role = "text"}

SelectInputs == {i \in DOMAIN inputs : inputs[i].role = "select"}

RangeColumns == {inputs[i].col : i \in {j \in DOMAIN inputs : inputs[j].role = "from"}}

ManagedColumns == {inputs[i].col : i \in DOMAIN inputs}

\* C1: after a value-changing edit of a debounced input that no other event
\* has followed, exactly one redraw is made, Delay after that edit: until then
\* exactly one timer is pending and due at that moment, and once the redraw
\* is made no timer is left.
C1_Debounce ==
    (lastEdit.input # 0 /\ lastEdit.clean) =>
        \/ /\ lastEdit.draws = 0
           /\ \E t \in timers : timers = {t} /\ t.remaining = Delay - lastEdit.since
        \/ /\ lastEdit.draws = 1
           /\ timers = {}
           /\ lastEdit.since = Delay

\* C2: an event that directly follows an event on the same input and carries
\* the same raw value calls neither search nor draw and does not restart the
\* timer, for every input of the row.
C2_Idempotence == ev.dup => ev.fx = NoEffects

\* C3: every row of a table other than the one the predicate was created for
\* passes the predicate, whatever the bounds hold.
C3_OtherTablesAccepted == \A t \in Tables \ {OwnTable} : accepted[t] = Rows

\* C4: in remote mode the search slot of a number-range column is the range
\* expression of the current values of its two bounds, empty when both are.
C4_RangeSlotCurrent ==
    serverSide =>
        \A ci \in RangeColumns :
            LET f == BoundVal(inputs, ci, "from")
                t == BoundVal(inputs, ci, "to")
            IN  search[ci].sSearch =
                    IF f = <<>> /\ t = <<>> THEN <<>>
                    ELSE RangePrefix \o f \o <<"~">> \o t

\* C5: in remote mode the search slot of a select column whose handler has
\* run is "equals:" followed by the selected key unmodified, and empty for
\* the empty option.
C5_SelectRemoteSlot ==
    serverSide =>
        \A i \in SelectInputs :
            inputs[i].data # {} =>
                search[inputs[i].col].sSearch =
                    IF inputs[i].val = <<>> THEN <<>> ELSE EqualsPrefix \o inputs[i].val

\* C6: the search slot of a text column is "like:" + v in remote mode and v
\* in local mode for the input's value v, empty when v is empty, and every
\* value-changing event writes it in the same step.
C6_TextSlot ==
    \A i \in TextInputs :
        /\ search[inputs[i].col].sSearch =
               IF inputs[i].val = <<>> THEN <<>>
               ELSE IF serverSide THEN LikePrefix \o inputs[i].val
               ELSE inputs[i].val
        /\ (ev.by = "user" /\ ev.input = i /\ ev.changed) => ev.fx.search = 1

C6_Witness ==
    \E i \in TextInputs :
        /\ ev.by = "user" /\ ev.input = i /\ ev.changed
        /\ serverSide
        /\ inputs[i].val = <<"a", "b">>


\* the length of the longest prefix of s that is a decimal literal
\* (sign, digits, '.', digits), 0 when there is none
NumeralLength(s) ==
    LET signed == s # <<>> /\ Head(s) \in {"-", "+"}
        body   == IF signed THEN Tail(s) ELSE s
        ip     == LeadingDigits(body)
        rest   == SubSeq(body, Len(ip) + 1, Len(body))
        dot    == rest # <<>> /\ Head(rest) = "."
        fp     == IF dot THEN LeadingDigits(Tail(rest)) ELSE <<>>
    IN  IF ip = <<>> /\ fp = <<>> THEN 0
        ELSE (IF signed THEN 1 ELSE 0) + Len(ip)
             + (IF dot /\ (ip # <<>> \/ fp # <<>>) THEN 1 + Len(fp) ELSE 0)

\* the claim's reading of "parsed as a decimal": the whole text is a decimal
\* literal, anything else (empty or malformed) is not-a-number
WholeDecimal(s) == IF s # <<>> /\ NumeralLength(s) = Len(s) THEN parseFloat(s) ELSE NaN

\* the value of the longest leading decimal literal of the text
LeadingDecimal(s) == WholeDecimal(SubSeq(s, 1, NumeralLength(s)))

\* the four cases of the claim
ClaimedMatch(min, max, value) ==
    \/ isNaN(min) /\ isNaN(max)
    \/ isNaN(min) /\ ~isNaN(max) /\ value.v <= max.v
    \/ ~isNaN(min) /\ isNaN(max) /\ min.v <= value.v
    \/ ~isNaN(min) /\ ~isNaN(max) /\ min.v <= value.v /\ value.v <= max.v

CellValue(x) == IF isNaN(x) THEN Number(0) ELSE x

HasUnknownType ==
    \E ci \in DOMAIN aoColumns :
        aoColumns[ci].bVisible /\ items(aoColumns, ci) \notin KnownTypes \cup {"null"}

ValidColumns ==
    {ci \in DOMAIN aoColumns : aoColumns[ci].bVisible /\ items(aoColumns, ci) \in KnownTypes}

\* C8: when a column has an unknown filter type the constructor warns, does
\* not throw, creates the controls of every valid column and attaches the row.
C8_UnknownTypeTolerated ==
    (pc \in {"ready", "failed"} /\ HasUnknownType) =>
        /\ pc = "ready"
        /\ warnings >= 1
        /\ attached
        /\ ValidColumns \subseteq ManagedColumns

\* C9: once the row is torn down no row timer is pending and no predicate of
\* the row is registered.
C9_TeardownReleases == pc = "torn" => (timers = {} /\ extSearch = <<>>)

\* C10: when the clear click handler has returned, every input of the row is
\* empty and the search slot of every managed column is empty, one change
\* event having been delivered to each input.
C10_ClearEmpties ==
    ev.by = "clear" =>
        /\ \A i \in DOMAIN inputs : inputs[i].val = <<>>
        /\ \A ci \in ManagedColumns : search[ci].sSearch = <<>>
        /\ inputs # <<>> => ev.input = Len(inputs)

\* a remote range row cleared while both bounds were set: the from handler ran
\* with the sibling still holding a value
C10_Witness ==
    /\ ev.by = "clear"
    /\ serverSide
    /\ \E i \in DOMAIN inputs :
        /\ inputs[i].role = "from"
        /\ inputs[i].data = {RangePrefix \o <<"~", "1">>}
    /\ \E i \in TextInputs : inputs[i].data = {<<>>}


\* the columns the plugin may manage: visible, searchable, with a filter attached
EligibleColumns ==
    {ci \in DOMAIN aoColumns :
        aoColumns[ci].bVisible /\ aoColumns[ci].bSearchable /\ aoColumns[ci].type # "none"}

\* C11: only columns that are visible, searchable and carry a filter get a
\* control or a row predicate, a handler that calls search belongs to such a
\* column, and the search slot of every other column is never written.
C11_OnlyEligibleColumns ==
    /\ ManagedColumns \subseteq EligibleColumns
    /\ \A k \in DOMAIN extSearch : extSearch[k].ci \in EligibleColumns
    /\ ev.fx.search > 0 => inputs[ev.input].col \in EligibleColumns
    /\ \A ci \in DOMAIN aoColumns \ EligibleColumns :
           search[ci] = [sSearch |-> <<>>, bRegex |-> FALSE]

\* a slot has been written while the other column carries a filter but is not
\* searchable
C11_Witness ==
    /\ ev.by = "user" /\ ev.fx.search = 1
    /\ search[inputs[ev.input].col].sSearch # <<>>
    /\ \E ci \in DOMAIN aoColumns \ EligibleColumns : aoColumns[ci].type = "select"


\* the characters with a meaning of their own in a regular expression
SyntaxCharacters ==
    {"^", "$", "\\", ".", "*", "+", "?", "(", ")", "[", "]", "{", "}", "|"}

\* a backslash before one of these stands for the character itself
EscapableCharacters == SyntaxCharacters \cup {"/", "-"}

\* the text a pattern matches when it is made of literal characters only;
\* ok is FALSE when some character of it keeps its regex meaning
RECURSIVE LiteralText(_)
LiteralText(p) ==
    IF p = <<>> THEN [ok |-> TRUE, text |-> <<>>]
    ELSE IF Head(p) = "\\"
    THEN IF Len(p) >= 2 /\ p[2] \in EscapableCharacters
         THEN LET r == LiteralText(Tail(Tail(p)))
              IN  [ok |-> r.ok, text |-> <<p[2]>> \o r.text]
         ELSE [ok |-> FALSE, text |-> <<>>]
    ELSE IF Head(p) \in SyntaxCharacters
    THEN [ok |-> FALSE, text |-> <<>>]
    ELSE LET r == LiteralText(Tail(p))
         IN  [ok |-> r.ok, text |-> <<Head(p)>> \o r.text]

\* the pattern is "^", then the key k with every metacharacter literal, then "$"
AnchoredLiteral(p, k) ==
    /\ Len(p) >= 2
    /\ p[1] = "^"
    /\ p[Len(p)] = "$"
    /\ LiteralText(SubSeq(p, 2, Len(p) - 1)) = [ok |-> TRUE, text |-> k]

\* C12: in local mode the search slot of a select column whose input has had
\* an event is "^" + escape(k) + "$" for the selected key k, a pattern whose
\* characters are all literal and spell k, with the regex flag set; for the
\* empty option the slot is empty, without anchors; every value-changing
\* event writes the slot in the same step.
C12_SelectLocalSlot ==
    ~serverSide =>
        \A i \in SelectInputs :
            /\ inputs[i].data # {} =>
                   /\ search[inputs[i].col].bRegex
                   /\ IF inputs[i].val = <<>>
                      THEN search[inputs[i].col].sSearch = <<>>
                      ELSE AnchoredLiteral(search[inputs[i].col].sSearch, inputs[i].val)
            /\ (ev.by = "user" /\ ev.input = i /\ ev.changed) => ev.fx.search = 1

\* a key holding a metacharacter has just been selected in local mode
C12_Witness ==
    /\ ~serverSide
    /\ ev.by = "user" /\ ev.changed
    /\ ev.input \in SelectInputs
    /\ inputs[ev.input].val = <<"c", "+">>
    /\ search[inputs[ev.input].col].sSearch = <<"^", "c", "\\", "+", "$">>


\* C13: at most one redraw timer of the row is pending, it is the one whose
\* handle the row holds, and a handler that schedules a timer while one is
\* outstanding cancels that one first.
C13_OneTimerPerRow ==
    /\ Cardinality(timers) <= 1
    /\ \A t \in timers : t.id = trTimeout
    /\ ev.fx.cancel <= ev.fx.start

\* a handler has just replaced the outstanding timer of the row by a new one
C13_Witness ==
    /\ ev.by = "user"
    /\ ev.fx.start = 1 /\ ev.fx.cancel = 1
    /\ \E t \in timers : timers = {t} /\ t.remaining = Delay


\* the bounds of the number-range columns
RangeInputs == {i \in DOMAIN inputs : inputs[i].role \in {"from", "to"}}

\* C14: in local mode an event on a bound of a number-range column never
\* redraws in the handler itself; with an unchanged value it does nothing, and
\* with a changed value it schedules the redraw on the row timer.
C14_LocalRangeDebounced ==
    (~serverSide /\ ev.by = "user" /\ ev.input \in RangeInputs) =>
        /\ ev.fx.draw = 0
        /\ ~ev.changed => ev.fx = NoEffects
        /\ ev.changed => ev.fx.start = 1

\* C15: in remote mode an event on a bound of a number-range column that
\* carries the value the bound already had from its previous event updates no
\* search slot and starts no timer, whatever happened to the sibling bound.
\* (A bound holds a non-empty value only from an earlier event of its own.)
C15_RangeGuardOnRawValue ==
    (serverSide /\ ev.by = "user" /\ ev.input \in RangeInputs
        /\ ~ev.changed /\ inputs[ev.input].val # <<>>) =>
        ev.fx = NoEffects


\* every managed column's search slot holds what its handler stores for the
\* present value of its input(s)
SlotsCurrent ==
    /\ \A i \in TextInputs :
           search[inputs[i].col].sSearch = TextEncode(serverSide, inputs[i].val)
    /\ \A i \in SelectInputs :
           inputs[i].data # {} =>
               search[inputs[i].col].sSearch =
                   SelectEncode(serverSide, escapeRegex(inputs[i].val))
    /\ serverSide =>
           \A ci \in RangeColumns :
               search[ci].sSearch =
                   RangeEncode(BoundVal(inputs, ci, "from"), BoundVal(inputs, ci, "to"))

\* C16: while the row is not torn down, a value-changing event on a debounced
\* input that no redraw has followed yet has a timer pending for it, so that
\* the redraw follows when the timer expires; once the redraw is made and no
\* event has come since, no timer is pending; and the slots the redraw was
\* made with reflect the latest values of the inputs.
C16_RedrawFollows ==
    (pc = "ready" /\ lastEdit.input # 0) =>
        /\ lastEdit.draws = 0 => timers # {}
        /\ (lastEdit.draws >= 1 /\ lastEdit.clean) => timers = {}
        /\ lastEdit.draws >= 1 => SlotsCurrent


\* C17: the redraw a value-changing edit of any debounced input of the row
\* calls for is held by the one timer of the row and is not made before Delay
\* has passed since the last such edit, whichever input it was on; right after
\* a clear that changed an input that one timer is pending with the full
\* Delay, so a single redraw follows the clear.
C17_RowTimerShared ==
    (pc = "ready" /\ lastEdit.input # 0 /\ lastEdit.draws = 0) =>
        /\ \E t \in timers : timers = {t} /\ t.remaining >= Delay - lastEdit.since
        /\ (ev.by = "clear" /\ lastEdit.since = 0) =>
               \E t \in timers : timers = {t} /\ t.remaining = Delay


\* C18: the first event delivered on a freshly built row, a change event on
\* one input or a clear, with every input still empty, is a no-op: the handler
\* calls nothing and no timer is started.
C18_FirstEmptyEventNoOp ==
    [][(/\ ev.by = "none"
        /\ ev'.by # "none"
        /\ \A i \in DOMAIN inputs' : inputs'[i].val = <<>>)
       => (/\ ev'.fx = NoEffects
           /\ search' = search
           /\ timers' = timers)]_vars


====
